---- MODULE Spec2Model ----
(***************************************************************************)
(* Model of api-perf-budget (src/index.js): the percentile estimator, the  *)
(* batched measurement driver measureRoute / measureSingleRequest, the     *)
(* budget comparator checkBudget and the budget registry defineBudget.     *)
(*                                                                         *)
(* JavaScript numbers are IEEE-754 binary floating point.  The model keeps *)
(* the rounding (round to nearest, ties to even, after every arithmetic    *)
(* operation) and scales the format down: a significand of Precision bits  *)
(* instead of 53, and a smallest unit of 2^-ScaleBits.  A number is held   *)
(* as an integer count of that unit, so 1.0 is Unit.                       *)
(***************************************************************************)
EXTENDS Integers, Sequences, FiniteSets, TLC

\* ------------------------------------------------------------------ bounds
Precision == 4
ScaleBits == 10
MaxRequests == 4
MaxConcurrency == 3

RECURSIVE Pow2(_)
Pow2(k) == IF k = 0 THEN 1 ELSE 2 * Pow2(k - 1)

Unit == Pow2(ScaleBits)

Min(a, b) == IF a <= b THEN a ELSE b

\* ------------------------------------------------- JavaScript number model
\* The unit in the last place of the float nearest n/d (n, d in units).
RECURSIVE Ulp(_, _, _)
Ulp(n, d, u) == IF n >= Pow2(Precision) * u * d THEN Ulp(n, d, 2 * u) ELSE u

\* The rational q[1]/q[2] (q[1] >= 0, q[2] > 0, counted in units) rounded to
\* the nearest representable number, ties to even.
Round[q \in Int \X Int] ==
    LET n == q[1]
        d == q[2]
        u == Ulp(n, d, 1)
        m == n \div (d * u)
        r == n % (d * u)
        up == (2 * r > d * u) \/ (2 * r = d * u /\ m % 2 = 1)
    IN  (IF up THEN m + 1 ELSE m) * u

Fl(n, d) == Round[<<n, d>>]

FlMul(a, b) == Fl(a * b, Unit)
FlAdd(a, b) == Fl(a + b, 1)
FlSub(a, b) == Fl(a - b, 1)
FlFloor(a) == a \div Unit
FlCeil(a) == (a + Unit - 1) \div Unit

\* Tagged JavaScript values: a number (v counts units), undefined, NaN and
\* Infinity.
Num(v) == [t |-> "number", v |-> v]
Undefined == [t |-> "undefined", v |-> 0]
NaN == [t |-> "NaN", v |-> 0]
Infinity == [t |-> "Infinity", v |-> 0]

\* ------------------------------------------------------------- percentile
\* src/index.js:1-16.  sortedValues is a sequence (1-based) of units; the
\* result is in units.
percentile(sortedValues, p) ==
    IF Len(sortedValues) = 0 THEN 0
    ELSE LET index == FlMul(Fl(p * Unit, 100), (Len(sortedValues) - 1) * Unit)
             lower == FlFloor(index)
             upper == FlCeil(index)
         IN  IF lower = upper THEN sortedValues[lower + 1]
             ELSE LET weight == FlSub(index, lower * Unit)
                  IN  FlAdd(FlMul(sortedValues[lower + 1], FlSub(Unit, weight)),
                            FlMul(sortedValues[upper + 1], weight))

\* Array.prototype.sort with the comparator (a, b) => a - b: ascending.
\* Inserted[<<sorted, x>>] is the sorted sequence with x put in its place.
Inserted[a \in Seq(Int) \X Int] ==
    LET sorted == a[1]
        x == a[2]
        below == Cardinality({k \in DOMAIN sorted : sorted[k] <= x})
    IN  SubSeq(sorted, 1, below) \o <<x>> \o SubSeq(sorted, below + 1, Len(sorted))

Sorted[values \in Seq(Int)] ==
    IF Len(values) = 0 THEN <<>>
    ELSE Inserted[<<Sorted[SubSeq(values, 1, Len(values) - 1)], values[Len(values)]>>]

SortAsc(values) == Sorted[values]

\* sorted.reduce((a, b) => a + b, 0)
Total[values \in Seq(Int)] ==
    IF Len(values) = 0 THEN 0
    ELSE FlAdd(Total[SubSeq(values, 1, Len(values) - 1)], values[Len(values)])

Sum(values) == Total[values]

\* ----------------------------------------------------------- measureRoute
\* pc is where measureRoute stands: "idle" (not called), "await" (suspended
\* at line 44), "ready" (Promise.all has settled), "return" (at line 48),
\* "done" (bundle returned) or "rejected" (its promise rejected).
\* promises holds the calls of the current batch: each its request number
\* id, its promise state and value, and whether its fetch failed.
\* nextId, inflight and log are bookkeeping the code does not keep: how
\* many requests were issued, which have not settled yet, and for each
\* value pushed to latencies the request and batch it came from.
VARIABLES pc, requests, concurrency, batches, i, promises, latencies, bundle,
          nextId, inflight, log

mrVars == <<pc, requests, concurrency, batches, i, promises, latencies, bundle,
            nextId, inflight, log>>

\* checkBudget: its arguments, its position and its return value.
VARIABLES measurements, budget, cbpc, verdict

cbVars == <<measurements, budget, cbpc, verdict>>

\* defineBudget: the objects of the heap, the caller's reference, the
\* returned reference, the position, and which reference the last write
\* went through.
VARIABLES heap, input, result, dbpc, via

dbVars == <<heap, input, result, dbpc, via>>

\* percentile called on its own: its arguments, its position and its
\* return value.
VARIABLES sample, rank, pepc, estimate

peVars == <<sample, rank, pepc, estimate>>

\* What one request's round trip can take: performance.now() - start.
LatencyValues == {Unit, Unit + Unit \div 8, 3 * Unit}

\* Math.ceil(requestCount / concurrency), src/index.js:33.
Batches(requestCount, conc) ==
    IF conc = 0 THEN (IF requestCount = 0 THEN NaN ELSE Infinity)
    ELSE IF conc > 0 THEN Num(FlCeil(Fl(requestCount * Unit, conc)) * Unit)
    ELSE Num(-(FlFloor(Fl(requestCount * Unit, -conc)) * Unit))

\* The loop condition i < batches, src/index.js:35.
LoopCond(it, b) ==
    IF b.t = "Infinity" THEN TRUE
    ELSE IF b.t = "number" THEN it * Unit < b.v
    ELSE FALSE

\* i++ on a JavaScript number: the successor, rounded.
Incr(it) == Fl((it + 1) * Unit, 1) \div Unit

\* A faulty variant: every batch is full, the last one too.
BatchSizeNoRemainder(it, requestCount, conc) == conc

\* Math.min(concurrency, requestCount - (i * concurrency)), src/index.js:36.
BatchSize(it, requestCount, conc) == Min(conc, requestCount - (it * conc))

\* A faulty variant: a failed fetch is not caught.
measureSingleRequestRethrows(call, fetchOk, elapsed) ==
    IF fetchOk
    THEN [call EXCEPT !.state = "fulfilled", !.value = elapsed]
    ELSE [call EXCEPT !.state = "rejected", !.failed = TRUE]

\* measureSingleRequest, src/index.js:65-77: the fetch is awaited inside a
\* try whose catch is empty, so the call fulfils with the elapsed time
\* whether the fetch resolved (fetchOk) or rejected.
measureSingleRequest(call, fetchOk, elapsed) ==
    [call EXCEPT !.state = "fulfilled", !.value = elapsed, !.failed = ~fetchOk]

\* A faulty variant: the batch counts as settled with its first result.
PromiseRace(ps) ==
    IF \E k \in DOMAIN ps : ps[k].state = "rejected" THEN "rejected"
    ELSE IF \E k \in DOMAIN ps : ps[k].state = "fulfilled" THEN "fulfilled"
    ELSE "pending"

\* Promise.all(promises), src/index.js:44: rejected once one promise is,
\* fulfilled once all are.
PromiseAll(ps) ==
    IF \E k \in DOMAIN ps : ps[k].state = "rejected" THEN "rejected"
    ELSE IF \A k \in DOMAIN ps : ps[k].state = "fulfilled" THEN "fulfilled"
    ELSE "pending"

\* The statistics of a sorted sample, src/index.js:49-62.
Statistics[sorted \in Seq(Int)] ==
    LET sum == Sum(sorted)
    IN  [p50 |-> Num(percentile(sorted, 50)),
         p75 |-> Num(percentile(sorted, 75)),
         p90 |-> Num(percentile(sorted, 90)),
         p95 |-> Num(percentile(sorted, 95)),
         p99 |-> Num(percentile(sorted, 99)),
         min |-> IF Len(sorted) = 0 THEN Undefined ELSE Num(sorted[1]),
         max |-> IF Len(sorted) = 0 THEN Undefined ELSE Num(sorted[Len(sorted)]),
         mean |-> IF Len(sorted) = 0 THEN NaN ELSE Num(Fl(sum, Len(sorted))),
         median |-> Num(percentile(sorted, 50)),
         count |-> Num(Len(sorted) * Unit)]

\* The bundle of the latencies: sorted copy, then statistics,
\* src/index.js:48-62.
Reduce(lat) == Statistics[SortAsc(lat)]

NoBundle == [p50 |-> Undefined, p75 |-> Undefined, p90 |-> Undefined,
             p95 |-> Undefined, p99 |-> Undefined, min |-> Undefined,
             max |-> Undefined, mean |-> Undefined, median |-> Undefined,
             count |-> Undefined]

\* One pass through the head of the for loop (src/index.js:35-44) with i = it:
\* either the whole batch is issued and the function suspends at the await,
\* or the loop is over and the function goes on to line 48.
LoopStep(it, b, requestCount, conc, lat, lg) ==
    IF LoopCond(it, b)
    THEN LET size == BatchSize(it, requestCount, conc)
         IN  /\ pc' = "await"
             /\ i' = it
             /\ promises' = [k \in 1..size |->
                    [id |-> nextId + k - 1, state |-> "pending", value |-> 0,
                     failed |-> FALSE]]
             /\ nextId' = nextId + Cardinality(1..size)
             /\ inflight' = inflight \cup {nextId + k - 1 : k \in 1..size}
             /\ latencies' = lat
             /\ log' = lg
             /\ bundle' = bundle
    ELSE /\ pc' = "return"
         /\ i' = it
         /\ promises' = <<>>
         /\ latencies' = lat
         /\ log' = lg
         /\ UNCHANGED <<bundle, nextId, inflight>>

\* measureRoute(url, {requests, concurrency}) is called, src/index.js:22-33.
Call(requestCount, conc) ==
    /\ pc = "idle"
    /\ requests' = requestCount
    /\ concurrency' = conc
    /\ batches' = Batches(requestCount, conc)
    /\ LoopStep(0, Batches(requestCount, conc), requestCount, conc, <<>>, <<>>)
    /\ UNCHANGED <<cbVars, dbVars, peVars>>

\* The fetch of one request of the batch settles, src/index.js:68-76.
Settle(k, fetchOk, elapsed) ==
    /\ pc = "await"
    /\ k \in DOMAIN promises
    /\ promises[k].state = "pending"
    /\ promises' = [promises EXCEPT ![k] = measureSingleRequest(@, fetchOk, elapsed)]
    /\ inflight' = inflight \ {promises[k].id}
    /\ UNCHANGED <<pc, requests, concurrency, batches, i, latencies, bundle,
                   nextId, log>>
    /\ UNCHANGED <<cbVars, dbVars, peVars>>

\* Promise.all(promises) settles, src/index.js:44: the awaiting measureRoute
\* becomes ready to run again.
AllSettled ==
    /\ pc = "await"
    /\ PromiseAll(promises) # "pending"
    /\ pc' = "ready"
    /\ UNCHANGED <<requests, concurrency, batches, i, promises, latencies,
                   bundle, nextId, inflight, log>>
    /\ UNCHANGED <<cbVars, dbVars, peVars>>

\* measureRoute resumes after the await, src/index.js:44-46: a rejection
\* is thrown out of the function, otherwise the results are appended and
\* the loop goes round again.
Resume ==
    /\ pc = "ready"
    /\ UNCHANGED <<requests, concurrency, batches>>
    /\ UNCHANGED <<cbVars, dbVars, peVars>>
    /\ IF PromiseAll(promises) = "rejected"
       THEN /\ pc' = "rejected"
            /\ UNCHANGED <<i, promises, latencies, bundle, nextId, inflight, log>>
       ELSE LoopStep(Incr(i), batches, requests, concurrency,
                     latencies \o [k \in DOMAIN promises |-> promises[k].value],
                     log \o [k \in DOMAIN promises |->
                                [id |-> promises[k].id, batch |-> i,
                                 failed |-> promises[k].failed]])

\* The latencies are reduced and the bundle returned, src/index.js:48-62.
Return ==
    /\ pc = "return"
    /\ pc' = "done"
    /\ bundle' = Reduce(latencies)
    /\ UNCHANGED <<requests, concurrency, batches, i, promises, latencies,
                   nextId, inflight, log>>
    /\ UNCHANGED <<cbVars, dbVars, peVars>>

vars == <<mrVars, cbVars, dbVars, peVars>>

MeasureInit ==
    /\ pc = "idle"
    /\ requests = 0
    /\ concurrency = 1
    /\ batches = Num(0)
    /\ i = 0
    /\ promises = <<>>
    /\ latencies = <<>>
    /\ bundle = NoBundle
    /\ nextId = 0
    /\ inflight = {}
    /\ log = <<>>

CallPositive == \E r \in 0..MaxRequests, c \in 1..MaxConcurrency : Call(r, c)
CallAny == \E r \in 0..MaxRequests, c \in (-MaxConcurrency)..MaxConcurrency : Call(r, c)
SettleOne == \E k \in 1..MaxConcurrency, ok \in BOOLEAN, ms \in LatencyValues : Settle(k, ok, ms)

\* ------------------------------------------------------------ checkBudget
\* measurements[metric], src/index.js:83: an own field's value, what
\* Object.prototype supplies for an inherited name, otherwise undefined.
InheritedNames == {"toString"}
Inherited == [t |-> "function", v |-> 0]

Lookup(meas, metric) ==
    IF metric \in DOMAIN meas THEN meas[metric]
    ELSE IF metric \in InheritedNames THEN Inherited
    ELSE Undefined

\* A faulty variant: >= for >.
JsGe(actual, limit) ==
    actual.t = "number" /\ limit.t = "number" /\ actual.v >= limit.v

\* actual > limit on JavaScript values: false unless both convert to
\* numbers that compare so (undefined, NaN and a function convert to NaN).
JsGt(actual, limit) ==
    actual.t = "number" /\ limit.t = "number" /\ actual.v > limit.v

\* A faulty variant: !(actual <= limit), true of a missing value.
ExceedsUnlessWithin(actual, limit) ==
    ~(actual.t = "number" /\ limit.t = "number" /\ actual.v <= limit.v)

\* The test of src/index.js:85.
Exceeds(actual, limit) == actual # Undefined /\ JsGt(actual, limit)

\* A faulty variant: the violation is put first.
Unshift(list, violation) == <<violation>> \o list

\* violations.push(...), src/index.js:86-90.
Push(list, violation) == Append(list, violation)

\* The for loop of src/index.js:82-92 over Object.entries(budget), with
\* the violations found so far.
RECURSIVE Collect(_, _, _)
Collect(meas, entries, violations) ==
    IF Len(entries) = 0 THEN violations
    ELSE LET metric == Head(entries).metric
             limit == Head(entries).limit
             actual == Lookup(meas, metric)
         IN  Collect(meas, Tail(entries),
                     IF Exceeds(actual, limit)
                     THEN Push(violations,
                               [metric |-> metric, actual |-> actual, limit |-> limit])
                     ELSE violations)

\* checkBudget, src/index.js:79-98.  The budget is given as the sequence
\* Object.entries yields: its entries in insertion order.
checkBudget(meas, bud) ==
    LET violations == Collect(meas, bud, <<>>)
    IN  [passed |-> Len(violations) = 0, violations |-> violations]

NoVerdict == [passed |-> FALSE, violations |-> <<>>]

CheckBudget ==
    /\ cbpc = "idle"
    /\ cbpc' = "checked"
    /\ verdict' = checkBudget(measurements, budget)
    /\ UNCHANGED <<measurements, budget, mrVars, dbVars, peVars>>

\* The bundles and budgets checkBudget is tried on.
MaxBudget == 3
BundleFields == {"p95", "p99", "min", "mean"}
BudgetNames == BundleFields \cup InheritedNames \cup {"p999"}
Limits == {Num(Unit), Num(2 * Unit)}

Bundles ==
    {m \in [BundleFields -> {Num(Unit), Num(2 * Unit), Num(3 * Unit), Undefined, NaN}] :
        /\ m.p95.t = "number"
        /\ m.p99 \in {Num(2 * Unit), Num(3 * Unit)}
        /\ m.min \in {Num(Unit), Undefined}
        /\ m.mean \in {Num(2 * Unit), NaN}}

\* A measurement object lacking some fields is drawn as well.
MeasurementObjects ==
    Bundles \cup {[f \in {"p95"} |-> Num(2 * Unit)]}

Budgets ==
    UNION {{b \in [1..n -> [metric : BudgetNames, limit : Limits]] :
              \A j, k \in 1..n : j # k => b[j].metric # b[k].metric} : n \in 0..MaxBudget}

BudgetIdle ==
    /\ measurements = [f \in {"p95"} |-> Num(2 * Unit)]
    /\ budget = <<>>
    /\ cbpc = "idle"
    /\ verdict = NoVerdict

\* ----------------------------------------------------------- defineBudget
\* Objects live in a heap, a sequence indexed by address.  A budgets object
\* maps route names to the addresses of budget objects; a budget object maps
\* metric names to limits.
MaxHeap == 5
Routes == {"/api/users", "/api/checkout"}
BudgetObjects == {<<>>} \cup {[m \in {"p95"} |-> l] : l \in {100, 200}}

\* defineBudget, src/index.js:18-20: {...budgets} is a new object holding
\* the own properties of budgets, each with the same value (for a route,
\* the same address).
defineBudget(h, budgets) ==
    [heap |-> Append(h, h[budgets]), ref |-> Len(h) + 1]

DefineBudget ==
    /\ dbpc = "idle"
    /\ dbpc' = "defined"
    /\ heap' = defineBudget(heap, input).heap
    /\ result' = defineBudget(heap, input).ref
    /\ via' = "none"
    /\ UNCHANGED <<input, mrVars, cbVars, peVars>>

\* The reference a later write of the caller goes through.
Ref(name) == IF name = "input" THEN input ELSE result

\* budgets[route][metric] = limit, through either reference.
SetLimit(name, route, metric, limit) ==
    /\ dbpc = "defined"
    /\ route \in DOMAIN heap[Ref(name)]
    /\ heap' = [heap EXCEPT ![heap[Ref(name)][route]] = (metric :> limit) @@ @]
    /\ via' = name
    /\ UNCHANGED <<input, result, dbpc, mrVars, cbVars, peVars>>

\* delete budgets[route]
DeleteRoute(name, route) ==
    /\ dbpc = "defined"
    /\ route \in DOMAIN heap[Ref(name)]
    /\ heap' = [heap EXCEPT ![Ref(name)] =
                    [r \in (DOMAIN heap[Ref(name)]) \ {route} |-> heap[Ref(name)][r]]]
    /\ via' = name
    /\ UNCHANGED <<input, result, dbpc, mrVars, cbVars, peVars>>

\* budgets[route] = {...}: a new budget object is stored under the route.
AddRoute(name, route, budgetObject) ==
    /\ dbpc = "defined"
    /\ Len(heap) < MaxHeap
    /\ heap' = Append([heap EXCEPT ![Ref(name)] = (route :> (Len(heap) + 1)) @@ @],
                      budgetObject)
    /\ via' = name
    /\ UNCHANGED <<input, result, dbpc, mrVars, cbVars, peVars>>

\* What a reader sees through a budgets reference: each route's budget.
View(ref) == [route \in DOMAIN heap[ref] |-> heap[heap[ref][route]]]

RegistryIdle ==
    /\ heap = <<>>
    /\ input = 0
    /\ result = 0
    /\ dbpc = "idle"
    /\ via = "none"

\* ------------------------------------------------- percentile, called alone
MaxLen == 3

\* The ranks measureRoute asks for (src/index.js:52-60) and the two ends.
Ranks == {0, 50, 75, 90, 95, 99, 100}

\* Values a sorted array can hold: 1, 1.125, 1.75 and 3.
SampleValues == {Unit, Unit + Unit \div 8, Unit + 3 * (Unit \div 4), 3 * Unit}

\* The caller's obligation: sortedValues is ascending.
Samples ==
    {s \in UNION {[1..n -> SampleValues] : n \in 0..MaxLen} :
        \A k \in 1..(Len(s) - 1) : s[k] <= s[k + 1]}

Percentile ==
    /\ pepc = "idle"
    /\ estimate' = percentile(sample, rank)
    /\ pepc' = "done"
    /\ UNCHANGED <<sample, rank, mrVars, cbVars, dbVars>>

PercentileIdle ==
    /\ sample = <<>>
    /\ rank = 0
    /\ pepc = "idle"
    /\ estimate = 0

Init == MeasureInit /\ BudgetIdle /\ RegistryIdle /\ PercentileIdle

Next == CallPositive \/ SettleOne \/ AllSettled \/ Resume \/ Return
Spec == Init /\ [][Next]_vars

NextAny == CallAny \/ SettleOne \/ AllSettled \/ Resume \/ Return
FairSpec == Init /\ [][NextAny]_vars /\ WF_vars(NextAny)

BudgetInit ==
    /\ MeasureInit
    /\ RegistryIdle
    /\ PercentileIdle
    /\ measurements \in MeasurementObjects
    /\ budget \in Budgets
    /\ cbpc = "idle"
    /\ verdict = NoVerdict

BudgetSpec == BudgetInit /\ [][CheckBudget]_vars

\* The caller's budgets object is at address 1, the budget objects of its
\* routes at 2 and 3.
RegistryInit ==
    /\ MeasureInit
    /\ BudgetIdle
    /\ PercentileIdle
    /\ input = 1
    /\ result = 0
    /\ dbpc = "idle"
    /\ via = "none"
    /\ \E present \in SUBSET Routes, users \in BudgetObjects, checkout \in BudgetObjects :
          heap = << [r \in present |-> IF r = "/api/users" THEN 2 ELSE 3],
                    IF "/api/users" \in present THEN users ELSE <<>>,
                    IF "/api/checkout" \in present THEN checkout ELSE <<>> >>

Write ==
    \E name \in {"input", "result"}, route \in Routes :
        \/ \E limit \in {100, 200} : SetLimit(name, route, "p95", limit)
        \/ DeleteRoute(name, route)
        \/ \E b \in BudgetObjects : AddRoute(name, route, b)

RegistryNext == DefineBudget \/ Write
RegistrySpec == RegistryInit /\ [][RegistryNext]_vars

PercentileInit ==
    /\ MeasureInit
    /\ BudgetIdle
    /\ RegistryIdle
    /\ sample \in Samples
    /\ rank \in Ranks
    /\ pepc = "idle"
    /\ estimate = 0

PercentileSpec == PercentileInit /\ [][Percentile]_vars

\* ------------------------------------------------------------------ claims
Stats == {"p50", "p75", "p90", "p95", "p99", "min", "max", "mean", "median"}

LoggedIds == {log[k].id : k \in DOMAIN log}

\* The requests the documentation assigns to batch b.
BatchRange(b) == (b * concurrency)..(Min((b + 1) * concurrency, requests) - 1)

\* C1: with requests >= 0 and concurrency >= 1, whatever requests fail, the
\* returned bundle has count = requests, and the observations are those of
\* the requests 0 .. requests-1, one each, none lost and none twice.
CountMatchesRequests ==
    pc = "done" =>
        /\ bundle.count = Num(requests * Unit)
        /\ Len(latencies) = requests
        /\ [k \in DOMAIN log |-> log[k].id] = [k \in 1..requests |-> k - 1]

\* A run over a last, shorter batch, with a failed request, has returned.
CountWitness ==
    /\ pc = "done"
    /\ requests = 4
    /\ concurrency = 3
    /\ \E k \in DOMAIN log : log[k].failed

\* C2: for any requests >= 0 and any integer concurrency, if every issued
\* request settles, measureRoute eventually returns a bundle.
RunCompletes == <>(pc = "done")

\* C3: a failed fetch never aborts the run: the failed call fulfils with its
\* elapsed time, no promise of a batch rejects, measureRoute never rejects,
\* and the bundle of a finished run counts every request, failed or not.
FailureNeverAborts ==
    /\ pc # "rejected"
    /\ \A k \in DOMAIN promises :
          /\ promises[k].state # "rejected"
          /\ promises[k].failed =>
                /\ promises[k].state = "fulfilled"
                /\ promises[k].value \in LatencyValues
    /\ pc = "done" =>
          /\ LoggedIds = 0..(requests - 1)
          /\ bundle.count = Num(Len(log) * Unit)
          /\ \A k \in DOMAIN log : latencies[k] \in LatencyValues

\* A request of the first batch failed, and the run went on through a later
\* batch and returned its bundle.
FailureWitness ==
    /\ pc = "done"
    /\ \E k \in DOMAIN log : log[k].failed /\ log[k].batch = 0
    /\ \E k \in DOMAIN log : log[k].batch = 2

\* C4: batch i is exactly the requests i*concurrency ..
\* min((i+1)*concurrency, requests)-1; while it is awaited every request of
\* the earlier batches has settled and none of a later batch has started; so
\* at most `concurrency` requests are in flight at any moment.
BatchesAreSequential ==
    /\ pc \in {"await", "ready"} =>
          /\ {promises[k].id : k \in DOMAIN promises} = BatchRange(i)
          /\ \A b \in 0..(i - 1) : BatchRange(b) \subseteq LoggedIds
          /\ nextId = Min((i + 1) * concurrency, requests)
    /\ \A k \in DOMAIN log : log[k].id \in BatchRange(log[k].batch)
    /\ inflight \subseteq BatchRange(i)
    /\ Cardinality(inflight) <= concurrency

\* The second batch is awaited with all of its requests in flight.
BatchWitness ==
    /\ pc = "await"
    /\ i = 1
    /\ concurrency >= 2
    /\ Cardinality(inflight) = concurrency

\* C5: the bundle of an empty sample (requests = 0, count = 0) has every
\* statistic equal to the number 0.
EmptySampleIsAllZero ==
    (pc = "done" /\ bundle.count = Num(0)) =>
        \A st \in Stats : bundle[st] = Num(0)

\* C6: the bundle of a non-empty sample has
\* min <= p50 <= p75 <= p90 <= p95 <= p99 <= max and median = p50.
PercentilesAreOrdered ==
    (pc = "done" /\ Len(latencies) > 0) =>
        /\ \A st \in Stats : bundle[st].t = "number"
        /\ bundle.min.v <= bundle.p50.v
        /\ bundle.p50.v <= bundle.p75.v
        /\ bundle.p75.v <= bundle.p90.v
        /\ bundle.p90.v <= bundle.p95.v
        /\ bundle.p95.v <= bundle.p99.v
        /\ bundle.p99.v <= bundle.max.v
        /\ bundle.median = bundle.p50

\* The budget's entries whose metric is a field of the measurements.
PresentEntries == SelectSeq(budget, LAMBDA e : e.metric \in DOMAIN measurements)

\* Entry e of the budget is over its limit: the measured value is a number
\* strictly greater than the limit.
IsOver(e) ==
    /\ e.metric \in DOMAIN measurements
    /\ measurements[e.metric].t = "number"
    /\ measurements[e.metric].v > e.limit.v

OverEntries == SelectSeq(budget, IsOver)

\* C7: checkBudget passes exactly when no metric of the budget has a measured
\* value strictly greater than its limit (a value equal to its limit passes,
\* an empty budget passes), and passed = (violations is empty).
PassedIffNothingOver ==
    cbpc = "checked" =>
        /\ verdict.passed = (\A k \in DOMAIN budget : ~IsOver(budget[k]))
        /\ verdict.passed = (verdict.violations = <<>>)
        /\ budget = <<>> => verdict.passed

\* A budget with a metric measured exactly at its limit has passed.
AtLimitWitness ==
    /\ cbpc = "checked"
    /\ verdict.passed
    /\ \E k \in DOMAIN budget :
          /\ budget[k].metric \in DOMAIN measurements
          /\ measurements[budget[k].metric] = budget[k].limit

\* C8: the violations are the budget's entries over their limit, in the
\* budget's order, one record {metric, actual, limit} each with the entry's
\* metric, the measured value and the limit.
ViolationsInBudgetOrder ==
    cbpc = "checked" =>
        verdict.violations =
            [k \in 1..Len(OverEntries) |->
                [metric |-> OverEntries[k].metric,
                 actual |-> measurements[OverEntries[k].metric],
                 limit |-> OverEntries[k].limit]]

\* Two entries over their limit with one within its limit between them.
TwoViolationsWitness ==
    /\ cbpc = "checked"
    /\ Len(budget) = 3
    /\ IsOver(budget[1])
    /\ ~IsOver(budget[2])
    /\ IsOver(budget[3])
    /\ Len(verdict.violations) = 2

\* C9: a budget entry whose metric is not a field of the measurements gives
\* no violation and does not fail the check, whatever its limit: the verdict
\* is that of the budget's entries whose metric is present.
AbsentMetricIgnored ==
    cbpc = "checked" =>
        /\ \A k \in DOMAIN verdict.violations :
              verdict.violations[k].metric \in DOMAIN measurements
        /\ (\A k \in DOMAIN budget : budget[k].metric \notin DOMAIN measurements)
              => verdict.passed
        /\ verdict = checkBudget(measurements, PresentEntries)

\* A budget with an unknown metric and with a violated known one was checked.
AbsentMetricWitness ==
    /\ cbpc = "checked"
    /\ \E k \in DOMAIN budget : budget[k].metric = "p999"
    /\ \E k \in DOMAIN budget : budget[k].metric \in InheritedNames
    /\ Len(verdict.violations) = 1

\* C10: defineBudget returns an independent copy: the result is another
\* object with the content the input has at the call, and afterwards no write
\* through the result (a route added or removed, a limit changed) shows
\* through the input, nor one through the input through the result.
CopyIsIndependent ==
    [][/\ (dbpc = "idle" /\ dbpc' = "defined") =>
              (result' # input' /\ View(result)' = View(input))
       /\ (dbpc = "defined" /\ via' = "result") => View(input)' = View(input)
       /\ (dbpc = "defined" /\ via' = "input") => View(result)' = View(result)]_vars

\* The reference estimator of the contract: linear interpolation between
\* the closest ranks, S[lo] + (idx - lo) * (S[hi] - S[lo]).
ReferenceEstimate(S, p) ==
    IF Len(S) = 0 THEN 0
    ELSE LET idx == FlMul(Fl(p * Unit, 100), (Len(S) - 1) * Unit)
             lo == FlFloor(idx)
             hi == FlCeil(idx)
         IN  IF lo = hi THEN S[lo + 1]
             ELSE FlAdd(S[lo + 1],
                        FlMul(FlSub(idx, lo * Unit), FlSub(S[hi + 1], S[lo + 1])))

\* C11: for every non-decreasing sequence S and every rank p in [0,100],
\* percentile(S, p) equals the reference linear-interpolation estimator:
\* 0 for the empty sequence, S[lo] when lo = hi, and
\* S[lo] + (idx - lo) * (S[hi] - S[lo]) otherwise.
PercentileIsReference ==
    pepc = "done" => estimate = ReferenceEstimate(sample, rank)

====
